---- MODULE Spec2Model ----
(***************************************************************************)
(* A model of pkg/justinstall/util.go of just-install: the string          *)
(* expander (expandString, environMap), the process runner (system), the   *)
(* download cache (downloadExt, crc32s, downloadTemp, maybeDownload,       *)
(* download) and the archive extractor (extractZip).                       *)
(*                                                                         *)
(* Strings are sequences of one-character strings, so that formatting,     *)
(* parsing and normalisation are computed rather than assumed.             *)
(***************************************************************************)
EXTENDS Integers, Sequences, FiniteSets, TLC

(***************************************************************************)
(* Bounds of the model.                                                    *)
(***************************************************************************)
MaxBody == 2        \* longest response body, in bytes
MaxCalls == 2       \* ensure calls made in one behaviour

(***************************************************************************)
(* Strings.                                                                *)
(***************************************************************************)
HasPrefix(s, p) == Len(s) >= Len(p) /\ SubSeq(s, 1, Len(p)) = p

\* The index of the first occurrence of character c in s, 0 when there is none.
RECURSIVE IndexFrom(_, _, _)
IndexFrom(s, c, i) ==
    IF i > Len(s) THEN 0
    ELSE IF s[i] = c THEN i
    ELSE IndexFrom(s, c, i + 1)

Index(s, c) == IndexFrom(s, c, 1)

Count(s, c) == Cardinality({i \in 1..Len(s) : s[i] = c})

\* The code points of the characters the model's strings are written in.
Ord(c) ==
    CASE c = "#" -> 35 [] c = "%" -> 37 [] c = "." -> 46 [] c = "/" -> 47
      [] c = "2" -> 50 [] c = ":" -> 58 [] c = "?" -> 63 [] c = "E" -> 69
      [] c = "a" -> 97 [] c = "b" -> 98 [] c = "h" -> 104 [] c = "t" -> 116
      [] c = "z" -> 122

Alphabet == {"#", "%", ".", "/", "2", ":", "?", "E", "a", "b", "h", "t", "z"}

Chr(n) == CHOOSE c \in Alphabet : Ord(c) = n

Letters == {"A", "B", "C", "D", "E", "F", "G", "H", "I", "J", "K", "L", "M",
            "N", "O", "P", "Q", "R", "S", "T", "U", "V", "W", "X", "Y", "Z",
            "a", "b", "c", "d", "e", "f", "g", "h", "i", "j", "k", "l", "m",
            "n", "o", "p", "q", "r", "s", "t", "u", "v", "w", "x", "y", "z"}
Digits == {"0", "1", "2", "3", "4", "5", "6", "7", "8", "9"}

HexDigits == <<"0", "1", "2", "3", "4", "5", "6", "7",
               "8", "9", "A", "B", "C", "D", "E", "F">>

(***************************************************************************)
(* crc32s: hash/crc32 with the IEEE polynomial over the bytes of the       *)
(* string, printed with fmt's %X verb (upper case, no padding).            *)
(***************************************************************************)
\* TLC's integers are 32-bit signed, so a 32-bit unsigned word is kept as its two
\* 16-bit halves <<high, low>>.
Half == 65536
IEEEPolyHigh == 60856       \* 0xEDB8 of 0xEDB88320, the reversed IEEE polynomial
IEEEPolyLow == 33568        \* 0x8320

RECURSIVE Xor(_, _)
Xor(a, b) ==
    IF a = 0 THEN b
    ELSE IF b = 0 THEN a
    ELSE ((a + b) % 2) + 2 * Xor(a \div 2, b \div 2)

Xor32(v, w) == <<Xor(v[1], w[1]), Xor(v[2], w[2])>>

ShiftRight1(v) == <<v[1] \div 2, (v[2] \div 2) + (v[1] % 2) * (Half \div 2)>>

\* One step of the bitwise algorithm: shift right, and xor the polynomial in
\* when the bit shifted out is set.
CrcStep(crc) ==
    IF crc[2] % 2 = 1
    THEN Xor32(ShiftRight1(crc), <<IEEEPolyHigh, IEEEPolyLow>>)
    ELSE ShiftRight1(crc)

RECURSIVE CrcShift(_, _)
CrcShift(crc, k) == IF k = 0 THEN crc ELSE CrcShift(CrcStep(crc), k - 1)

\* One byte folded into the running checksum.
CrcByte(crc, b) == CrcShift(Xor32(crc, <<0, b>>), 8)

\* The running checksum after the bytes of s.  (The test on crc has TLC compute
\* the running value before it goes on to the next byte.)
RECURSIVE CrcUpdate(_, _)
CrcUpdate(crc, s) ==
    IF s = <<>> \/ Len(crc) # 2 THEN crc
    ELSE CrcUpdate(CrcByte(crc, Ord(Head(s))), Tail(s))

\* crc32.NewIEEE, Write, Sum32: the checksum of the bytes of s.
Sum32(s) == Xor32(CrcUpdate(<<Half - 1, Half - 1>>, s), <<Half - 1, Half - 1>>)

RECURSIVE HexOf(_, _)
HexOf(n, width) ==
    IF width = 0 THEN <<>>
    ELSE Append(HexOf(n \div 16, width - 1), HexDigits[(n % 16) + 1])

RECURSIVE TrimLeadingZeros(_)
TrimLeadingZeros(d) ==
    IF Len(d) > 1 /\ Head(d) = "0" THEN TrimLeadingZeros(Tail(d)) ELSE d

\* fmt.Sprintf("%X", v): upper-case hexadecimal, no padding.
FormatUpperHex(v) == TrimLeadingZeros(HexOf(v[1], 4) \o HexOf(v[2], 4))

crc32s(s) == FormatUpperHex(Sum32(s))

(***************************************************************************)
(* url.Parse, as far as downloadExt uses it: whether the URL parses, and   *)
(* its Path.  Results are records with an ok field; ok = FALSE stands for  *)
(* a returned error.                                                       *)
(***************************************************************************)
CutBefore(s, c) == IF Index(s, c) = 0 THEN s ELSE SubSeq(s, 1, Index(s, c) - 1)

CutAfter(s, c) == IF Index(s, c) = 0 THEN <<>> ELSE SubSeq(s, Index(s, c) + 1, Len(s))

Failed == [ok |-> FALSE, path |-> <<>>]

Parsed(path) == [ok |-> TRUE, path |-> path]

\* net/url getScheme.
RECURSIVE getScheme(_, _)
getScheme(rawurl, i) ==
    IF i > Len(rawurl) THEN [ok |-> TRUE, scheme |-> <<>>, rest |-> rawurl]
    ELSE IF rawurl[i] \in Letters THEN getScheme(rawurl, i + 1)
    ELSE IF rawurl[i] \in Digits \cup {"."}
         THEN IF i = 1 THEN [ok |-> TRUE, scheme |-> <<>>, rest |-> rawurl]
              ELSE getScheme(rawurl, i + 1)
    ELSE IF rawurl[i] = ":"
         THEN IF i = 1 THEN [ok |-> FALSE, scheme |-> <<>>, rest |-> <<>>]
              ELSE [ok |-> TRUE, scheme |-> SubSeq(rawurl, 1, i - 1),
                    rest |-> SubSeq(rawurl, i + 1, Len(rawurl))]
    ELSE [ok |-> TRUE, scheme |-> <<>>, rest |-> rawurl]

unhex(c) ==
    CASE c = "2" -> 2 [] c = "E" -> 14 [] c = "a" -> 10 [] c = "b" -> 11

IsHex(c) == c \in {"2", "E", "a", "b"}

\* net/url unescape in path mode: %XX is decoded, a malformed escape is an error.
RECURSIVE unescape(_)
unescape(s) ==
    IF s = <<>> THEN Parsed(<<>>)
    ELSE IF Head(s) = "%"
         THEN IF Len(s) < 3 \/ ~IsHex(s[2]) \/ ~IsHex(s[3]) THEN Failed
              ELSE LET rest == unescape(SubSeq(s, 4, Len(s)))
                   IN  IF ~rest.ok THEN Failed
                       ELSE Parsed(<<Chr(16 * unhex(s[2]) + unhex(s[3]))>> \o rest.path)
    ELSE LET rest == unescape(Tail(s))
         IN  IF ~rest.ok THEN Failed ELSE Parsed(<<Head(s)>> \o rest.path)

\* The part of net/url parse after the scheme: the query is cut off, an
\* authority ("//host") is skipped, the remainder is unescaped into Path.  A URL
\* with a scheme and no leading "/" is opaque and has an empty Path.  The
\* authorities of the model's URLs are letters and dots, which parseAuthority
\* accepts.
ParseRest(scheme, rest0) ==
    LET rest == IF rest0 # <<>> /\ rest0[Len(rest0)] = "?" /\ Count(rest0, "?") = 1
                   THEN SubSeq(rest0, 1, Len(rest0) - 1)
                   ELSE CutBefore(rest0, "?")
    IN  IF ~HasPrefix(rest, <<"/">>) /\ scheme # <<>> THEN Parsed(<<>>)
        ELSE IF ~HasPrefix(rest, <<"/">>) /\ Index(CutBefore(rest, "/"), ":") # 0
             THEN Failed
        ELSE IF HasPrefix(rest, <<"/", "/">>)
                  /\ (scheme # <<>> \/ ~HasPrefix(rest, <<"/", "/", "/">>))
             THEN LET authority == SubSeq(rest, 3, Len(rest))
                  IN  IF Index(authority, "/") = 0 THEN Parsed(<<>>)
                      ELSE unescape(SubSeq(authority, Index(authority, "/"),
                                           Len(authority)))
        ELSE unescape(rest)

\* url.Parse(rawurl): [ok |-> TRUE, path |-> u.Path] or Failed.
Parse(rawurl) ==
    LET sch == getScheme(CutBefore(rawurl, "#"), 1)
    IN  IF ~sch.ok THEN Failed
        ELSE IF ~unescape(CutAfter(rawurl, "#")).ok THEN Failed
        ELSE ParseRest(sch.scheme, sch.rest)

\* filepath.Ext: the suffix beginning at the final dot in the final element.
RECURSIVE ExtFrom(_, _)
ExtFrom(path, i) ==
    IF i < 1 \/ path[i] = "/" THEN <<>>
    ELSE IF path[i] = "." THEN SubSeq(path, i, Len(path))
    ELSE ExtFrom(path, i - 1)

Ext(path) == ExtFrom(path, Len(path))

(***************************************************************************)
(* The string expander: environMap and expandString.                       *)
(***************************************************************************)
MaxEnv == 2         \* entries in the process environment

\* strings.ToUpper on the letters of the model's variable names.
UpperChar(c) ==
    CASE c = "f" -> "F" [] c = "o" -> "O" [] c = "p" -> "P" [] c = "x" -> "X"
      [] OTHER -> c

ToUpper(s) == [i \in 1..Len(s) |-> UpperChar(s[i])]

\* strings.Replace(s, old, new, -1): every occurrence, left to right.
RECURSIVE ReplaceAll(_, _, _)
ReplaceAll(s, old, new) ==
    IF s = <<>> THEN <<>>
    ELSE IF HasPrefix(s, old)
         THEN new \o ReplaceAll(SubSeq(s, Len(old) + 1, Len(s)), old, new)
    ELSE <<Head(s)>> \o ReplaceAll(Tail(s), old, new)

\* environMap: the two rewrites of a variable name, in the order of the code.
normalizeName(name) ==
    ReplaceAll(ToUpper(name), <<"(", "X", "8", "6", ")">>, <<"_", "X", "8", "6">>)

\* strings.SplitN(v, "=", 2).
SplitN2(v) ==
    IF Index(v, "=") = 0 THEN <<v>>
    ELSE <<SubSeq(v, 1, Index(v, "=") - 1), SubSeq(v, Index(v, "=") + 1, Len(v))>>

\* A Go map[string]string: a function on the set of its keys.
EmptyMap == [k \in {} |-> <<>>]

MapSet(m, k, v) == [x \in DOMAIN m \cup {k} |-> IF x = k THEN v ELSE m[x]]

\* environMap over the entries of os.Environ from the i-th on, added to ret:
\* [panic |-> TRUE] when an entry has no "=", so that split[1] is out of range.
RECURSIVE environMapFrom(_, _, _)
environMapFrom(env, i, acc) ==
    IF i > Len(env) THEN [panic |-> FALSE, map |-> acc]
    ELSE LET split == SplitN2(env[i])
         IN  IF Len(split) < 2 THEN [panic |-> TRUE, map |-> acc]
             ELSE IF split[1] = <<>> /\ split[2] = <<>>
                  THEN environMapFrom(env, i + 1, acc)
             ELSE environMapFrom(env, i + 1,
                                 MapSet(acc, normalizeName(split[1]), split[2]))

environMap(env) == environMapFrom(env, 1, EmptyMap)

\* expandString: the given context merged over the environment map.
MergeUnderEnvironment(data, ctx) ==
    [k \in DOMAIN data \cup DOMAIN ctx |-> IF k \in DOMAIN data THEN data[k] ELSE ctx[k]]
mergeContext(data, ctx) ==
    [k \in DOMAIN data \cup DOMAIN ctx |-> IF k \in DOMAIN ctx THEN ctx[k] ELSE data[k]]

\* The index at which sub first occurs in s from i on, 0 when it does not.
RECURSIVE FindFrom(_, _, _)
FindFrom(s, sub, i) ==
    IF i + Len(sub) - 1 > Len(s) THEN 0
    ELSE IF SubSeq(s, i, i + Len(sub) - 1) = sub THEN i
    ELSE FindFrom(s, sub, i + 1)

\* template.Parse on templates whose actions are field references {{.NAME}}:
\* the text and the fields in order, or an error for a "{{" that is not closed.
RECURSIVE parseTemplate(_)
parseTemplate(s) ==
    LET open2 == FindFrom(s, <<"{", "{">>, 1)
    IN  IF open2 = 0
        THEN [ok |-> TRUE, nodes |-> IF s = <<>> THEN <<>> ELSE <<[field |-> FALSE, text |-> s]>>]
        ELSE LET close2 == FindFrom(s, <<"}", "}">>, open2 + 2)
             IN  IF close2 = 0 THEN [ok |-> FALSE, nodes |-> <<>>]
                 ELSE LET rest == parseTemplate(SubSeq(s, close2 + 2, Len(s)))
                          text == IF open2 = 1 THEN <<>>
                                  ELSE <<[field |-> FALSE, text |-> SubSeq(s, 1, open2 - 1)]>>
                          name == SubSeq(s, open2 + 3, close2 - 1)
                      IN  IF ~rest.ok THEN [ok |-> FALSE, nodes |-> <<>>]
                          ELSE [ok |-> TRUE,
                                nodes |-> text \o <<[field |-> TRUE, text |-> name]>>
                                               \o rest.nodes]

\* Template.Execute on a map[string]string: a field that is no key of the map
\* evaluates to the zero value of the element type, the empty string.
evalField(data, name) == IF name \in DOMAIN data THEN data[name] ELSE <<>>

RECURSIVE execute(_, _)
execute(nodes, data) ==
    IF nodes = <<>> THEN <<>>
    ELSE (IF Head(nodes).field THEN evalField(data, Head(nodes).text)
          ELSE Head(nodes).text) \o execute(Tail(nodes), data)

\* expandString(s, context) in the environment env: the string returned, or a
\* panic (of environMap, or of template.Must on a parse error).
expandString(s, ctx, env) ==
    LET em == environMap(env)
        tmpl == parseTemplate(s)
    IN  IF em.panic \/ ~tmpl.ok THEN [outcome |-> "panic", out |-> <<>>]
        ELSE [outcome |-> "returned",
              out |-> execute(tmpl.nodes, mergeContext(em.map, ctx))]

\* The entries of the process environment: a mixed-case name, the same name in
\* upper case, a name with a parenthesized suffix, the empty "=" entry, and an
\* entry without "=".
EnvEntries == { <<"F", "o", "o", "=", "1">>,
                <<"F", "O", "O", "=", "2">>,
                <<"P", "(", "x", "8", "6", ")", "=", "3">>,
                <<"=">>,
                <<"q">> }

Environments == UNION {[1..n -> EnvEntries] : n \in 0..MaxEnv}

\* The contexts callers supply.
ContextKeys == { <<"F", "O", "O">>, <<"P", "_", "X", "8", "6">> }
Contexts == UNION {[ks -> { <<"9">> }] : ks \in SUBSET ContextKeys}

\* The templates callers expand.
Templates == { <<"x", "/", "{", "{", ".", "F", "O", "O", "}", "}">>,
               <<"{", "{", ".", "P", "_", "X", "8", "6", "}", "}", "/", "x">>,
               <<"{", "{", ".", "F", "O", "O", "}", "}", "/", "{", "{", ".", "B", "}", "}">>,
               <<"x", "{", "{", ".", "F", "O", "O">>,
               <<"x">> }

VARIABLES
    environ,    \* os.Environ() of the process
    context,    \* the context argument of expandString
    template,   \* the s argument of expandString
    expanded    \* the outcome of the call: none yet, returned or panic

expandVars == <<environ, context, template, expanded>>

ExpandInit ==
    /\ environ \in Environments
    /\ context \in Contexts
    /\ template \in Templates
    /\ expanded = [outcome |-> "none", out |-> <<>>]

ExpandIdle ==
    /\ environ = <<>>
    /\ context = EmptyMap
    /\ template = <<>>
    /\ expanded = [outcome |-> "none", out |-> <<>>]

\* The call expandString(template, context).
ExpandString ==
    /\ expanded.outcome = "none"
    /\ expanded' = expandString(template, context, environ)
    /\ UNCHANGED <<environ, context, template>>

(***************************************************************************)
(* The process runner: system.                                             *)
(***************************************************************************)
MaxRuns == 2        \* system calls made in one behaviour
MaxArgs == 2        \* longest argument vector

RebootRequired == 3010

\* The exit codes of the child; -1 is what ExitStatus reports for a child that
\* a signal ended.
ExitCodes == {0, 1, RebootRequired, RebootRequired + 1, -1}

Argvs == UNION {[1..n -> {"m", "q"}] : n \in 0..MaxArgs}

NilError == [kind |-> "nil", code |-> 0]
StartError == [kind |-> "start", code |-> 0]
WaitError == [kind |-> "wait", code |-> 0]
ExitError(code) == [kind |-> "exit", code |-> code]

VARIABLES
    args,       \* the argument vector of the current system call
    sysPc,      \* where the call is: idle, waiting, returned
    child,      \* the child process: none, running, exited
    exitCode,   \* the exit code of the child once it has exited
    sysErr,     \* the error the call returned
    sysLog,     \* the lines the call logged
    spawns,     \* attempts of the current call to start a child
    outcomes,   \* every <<exit code, returned error>> of the calls so far
    runs        \* calls made so far

systemVars == <<args, sysPc, child, exitCode, sysErr, sysLog, spawns, outcomes, runs>>

SystemInit ==
    /\ args = <<>>
    /\ sysPc = "idle"
    /\ child = "none"
    /\ exitCode = 0
    /\ sysErr = NilError
    /\ sysLog = <<>>
    /\ spawns = 0
    /\ outcomes = {}
    /\ runs = 0

\* system: what the call returns for the error of cmd.Wait of a child that
\* exited with the given code (Wait returns nil for code 0, an *exec.ExitError
\* otherwise).
WaitResultRebootFails(code) == IF code = 0 THEN NilError ELSE ExitError(code)
waitResult(code) ==
    IF code = 0 THEN NilError
    ELSE IF code # RebootRequired THEN ExitError(code)
    ELSE NilError

\* system(args...) up to the return of cmd.Start.
System ==
    /\ sysPc \in {"idle", "returned"}
    /\ runs < MaxRuns
    /\ runs' = runs + 1
    /\ \E argv \in Argvs :
          /\ args' = argv
          /\ exitCode' = 0
          /\ IF Len(argv) = 0
             THEN /\ sysPc' = "returned"
                  /\ sysErr' = NilError
                  /\ sysLog' = <<>>
                  /\ spawns' = 0
                  /\ child' = "none"
             ELSE /\ sysLog' = <<"Running">>
                  /\ spawns' = 1
                  /\ \/ /\ child' = "running"
                        /\ sysPc' = "waiting"
                        /\ sysErr' = NilError
                     \/ /\ child' = "none"
                        /\ sysPc' = "returned"
                        /\ sysErr' = StartError
    /\ UNCHANGED outcomes

\* The child exits.
ChildExit ==
    /\ child = "running"
    /\ child' = "exited"
    /\ exitCode' \in ExitCodes
    /\ UNCHANGED <<args, sysPc, sysErr, sysLog, spawns, outcomes, runs>>

\* A Wait that returns while the child is still running.
WaitReturnsEarly ==
    /\ sysPc = "waiting"
    /\ sysPc' = "returned"
    /\ sysErr' = NilError
    /\ UNCHANGED <<args, child, exitCode, sysLog, spawns, outcomes, runs>>

\* system: cmd.Wait returns once the child has exited, and the call classifies
\* the result.
Wait ==
    /\ sysPc = "waiting"
    /\ child = "exited"
    /\ sysPc' = "returned"
    /\ sysErr' = waitResult(exitCode)
    /\ sysLog' = IF exitCode = RebootRequired /\ waitResult(exitCode) = NilError
                  THEN Append(sysLog, "Exit code 3010, needs reboot")
                  ELSE sysLog
    /\ outcomes' = outcomes \cup {<<exitCode, waitResult(exitCode)>>}
    /\ UNCHANGED <<args, child, exitCode, spawns, runs>>

\* system: cmd.Wait fails with an error that is no *exec.ExitError, which the
\* call returns as it is.
WaitFails ==
    /\ sysPc = "waiting"
    /\ child = "exited"
    /\ sysPc' = "returned"
    /\ sysErr' = WaitError
    /\ UNCHANGED <<args, child, exitCode, sysLog, spawns, outcomes, runs>>

(***************************************************************************)
(* The archive extractor: extractZip.                                      *)
(***************************************************************************)
MaxEntries == 2     \* entries in an archive

\* Permission bits, as the set of the bits that are on.
AllBits == {"ur", "uw", "ux", "gr", "gw", "gx", "or", "ow", "ox"}
Mode0700 == {"ur", "uw", "ux"}
Mode0755 == AllBits \ {"gw", "ow"}
Mode0777 == AllBits

\* The umask of the process: none, or 022.
Umasks == { {}, {"gw", "ow"} }

\* Paths below extractTo are sequences of name components; <<>> is extractTo.
ZipPaths == { <<>>, <<"a">>, <<"b">>, <<"a", "b">> }

Parent(path) == SubSeq(path, 1, Len(path) - 1)

\* The entries archives are made of: a file in a directory, that directory
\* with owner-only and with group-readable bits, and a file at the top.
ZipEntries == { [name |-> <<"a", "b">>, isDir |-> FALSE, mode |-> Mode0755, content |-> <<1, 2>>],
                [name |-> <<"a">>, isDir |-> TRUE, mode |-> Mode0700, content |-> <<>>],
                [name |-> <<"a">>, isDir |-> TRUE, mode |-> Mode0755, content |-> <<>>],
                [name |-> <<"b">>, isDir |-> FALSE, mode |-> Mode0755, content |-> <<1>>] }

Archives == UNION {[1..n -> ZipEntries] : n \in 0..MaxEntries}

NoNode == [kind |-> "none", mode |-> {}, content |-> <<>>]
DirNode(mode) == [kind |-> "dir", mode |-> mode, content |-> <<>>]
FileNode(content) == [kind |-> "file", mode |-> {}, content |-> content]

VARIABLES
    tree,       \* the file system below extractTo: path -> node
    umask,      \* the umask of the process
    archive,    \* the entries of the archive at the path argument
    zipPc,      \* where extractZip is: idle, loop, returned
    zipIdx,     \* the entry the loop is at
    zipErr,     \* what extractZip returned: nil or an error
    zipOpen,    \* the handles extractZip holds
    copied,     \* the entries whose content was copied in full
    cut         \* the entries whose copy ended with an error

zipVars == <<tree, umask, archive, zipPc, zipIdx, zipErr, zipOpen, copied, cut>>

\* os.MkdirAll(path, perm) on tree t, when the system lets directories be
\* made (allowed) or refuses: [ok, tree].  An existing directory is left as it
\* is, a file in the way is an error, a missing directory is made with the bits
\* of perm that the umask leaves on.
RECURSIVE MkdirAll(_, _, _, _, _)
MkdirAll(t, path, perm, mask, allowed) ==
    IF t[path].kind = "dir" THEN [ok |-> TRUE, tree |-> t]
    ELSE IF t[path].kind = "file" THEN [ok |-> FALSE, tree |-> t]
    ELSE LET up == IF path = <<>> THEN [ok |-> TRUE, tree |-> t]
                   ELSE MkdirAll(t, Parent(path), perm, mask, allowed)
         IN  IF ~up.ok \/ ~allowed THEN [ok |-> FALSE, tree |-> up.tree]
             ELSE [ok |-> TRUE, tree |-> [up.tree EXCEPT ![path] = DirNode(perm \ mask)]]

\* os.Create(path) on tree t: the file is made or truncated when its directory
\* exists, no directory is in its place and the system allows it.
CanCreate(t, path) == t[Parent(path)].kind = "dir" /\ t[path].kind # "dir"

ZipInit ==
    /\ archive \in Archives
    /\ umask \in Umasks
    /\ \E root \in {NoNode, DirNode(Mode0755)} :
          tree = [q \in ZipPaths |-> IF q = <<>> THEN root ELSE NoNode]
    /\ zipPc = "idle"
    /\ zipIdx = 0
    /\ zipErr = "nil"
    /\ zipOpen = {}
    /\ copied = {}
    /\ cut = {}

ZipIdle ==
    /\ archive = <<>>
    /\ umask = {}
    /\ tree = [q \in ZipPaths |-> NoNode]
    /\ zipPc = "idle"
    /\ zipIdx = 0
    /\ zipErr = "nil"
    /\ zipOpen = {}
    /\ copied = {}
    /\ cut = {}

\* extractZip: os.MkdirAll(extractTo, 0700), its error dropped, then
\* zip.OpenReader(path) and the deferred Close.
ExtractZip ==
    /\ zipPc = "idle"
    /\ \E allowed \in BOOLEAN :
          tree' = MkdirAll(tree, <<>>, Mode0700, umask, allowed).tree
    /\ \/ /\ zipPc' = "loop"
          /\ zipIdx' = 1
          /\ zipOpen' = {"zipReader"}
          /\ UNCHANGED zipErr
       \/ /\ zipPc' = "returned"
          /\ zipErr' = "error"
          /\ UNCHANGED <<zipIdx, zipOpen>>
    /\ UNCHANGED <<umask, archive, copied, cut>>

\* extractZip: the loop body for a directory entry: os.MkdirAll with the mode
\* of the entry, its error dropped.
ExtractDir ==
    /\ zipPc = "loop"
    /\ zipIdx <= Len(archive)
    /\ archive[zipIdx].isDir
    /\ \E allowed \in BOOLEAN :
          tree' = MkdirAll(tree, archive[zipIdx].name, archive[zipIdx].mode,
                           umask, allowed).tree
    /\ zipIdx' = zipIdx + 1
    /\ UNCHANGED <<umask, archive, zipPc, zipErr, zipOpen, copied, cut>>

\* extractZip: the loop body for a file entry: os.MkdirAll of its directory with
\* 0777, os.Create, zipFile.Open, io.Copy with its error dropped, and the two
\* Close calls.  n is the number of bytes io.Copy wrote before it ended.
ExtractFile ==
    /\ zipPc = "loop"
    /\ zipIdx <= Len(archive)
    /\ ~archive[zipIdx].isDir
    /\ LET entry == archive[zipIdx]
           destinationPath == entry.name
       IN  \E allowed \in BOOLEAN :
             LET made == MkdirAll(tree, Parent(destinationPath), Mode0777, umask,
                                  allowed).tree
             IN  \/ \* os.Create fails: the error is returned
                    /\ tree' = made
                    /\ zipPc' = "returned"
                    /\ zipErr' = "error"
                    /\ zipOpen' = {}
                    /\ UNCHANGED <<zipIdx, copied, cut>>
                 \/ \* zipFile.Open fails: dest is closed, the error returned
                    /\ CanCreate(made, destinationPath)
                    /\ tree' = [made EXCEPT ![destinationPath] = FileNode(<<>>)]
                    /\ zipPc' = "returned"
                    /\ zipErr' = "error"
                    /\ zipOpen' = {}
                    /\ UNCHANGED <<zipIdx, copied, cut>>
                 \/ \* io.Copy writes n bytes; short of the content, it failed
                    /\ CanCreate(made, destinationPath)
                    /\ \E n \in 0..Len(entry.content) :
                          /\ tree' = [made EXCEPT ![destinationPath] =
                                         FileNode(SubSeq(entry.content, 1, n))]
                          /\ IF n = Len(entry.content)
                             THEN copied' = copied \cup {zipIdx} /\ UNCHANGED cut
                             ELSE cut' = cut \cup {zipIdx} /\ UNCHANGED copied
                    /\ zipIdx' = zipIdx + 1
                    /\ UNCHANGED <<zipPc, zipErr, zipOpen>>
    /\ UNCHANGED <<umask, archive>>

\* extractZip: the loop is over, the deferred zipReader.Close runs, nil is
\* returned.
ExtractDone ==
    /\ zipPc = "loop"
    /\ zipIdx > Len(archive)
    /\ zipPc' = "returned"
    /\ zipErr' = "nil"
    /\ zipOpen' = {}
    /\ UNCHANGED <<tree, umask, archive, zipIdx, copied, cut>>

(***************************************************************************)
(* The download cache: downloadExt, downloadTemp, maybeDownload, download. *)
(***************************************************************************)
\* The URLs callers pass: an extension in the path (and a checksum whose first
\* hexadecimal digit is zero), a dot in the host only, a dot in the query only,
\* an escaped dot in the path, and a URL url.Parse rejects.
URLs == { <<"h", ":", "/", "/", "a", "/", "a", ".", "2">>,
          <<"h", ":", "/", "/", "a", ".", "b", "/", "z">>,
          <<"h", ":", "/", "/", "a", "/", "b", "?", "a", ".", "z">>,
          <<"h", ":", "/", "/", "a", "/", "b", "%", "2", "E", "z">>,
          <<":", "a">> }

\* The ext arguments callers pass; downloadAutoExt passes the empty one.
Exts == { <<>>, <<".", "E">> }

\* The global tempPath, the directory the cache lives in.
TempPath == <<"t">>

\* filepath.Join of a directory and a file name without separators.
Join(d, name) == d \o <<"/">> \o name

\* downloadExt: the name of the cache file.
DownloadBaseOfUrlOnly(rawurl, ext) == crc32s(rawurl) \o Ext(Parse(rawurl).path)
downloadBase(rawurl, ext) ==
    IF ext # <<>> THEN crc32s(rawurl) \o ext
    ELSE crc32s(rawurl) \o Ext(Parse(rawurl).path)

\* downloadTemp: the path of the cache file.
downloadTempPath(filename) == Join(TempPath, filename)

\* download: the path the body is written to before the rename.
TempDestinationInPlace(destinationPath) == destinationPath
tempDestination(destinationPath) == destinationPath \o <<".", "t", "m", "p">>

\* maybeDownload: whether download is called.
NeedsDownloadAlways(exists, force) == TRUE
NeedsDownloadIgnoringForce(exists, force) == ~exists
needsDownload(exists, force) == ~exists \/ force

\* Every cache path and temporary path the calls of the model can name,
\* computed once: Inputs are the arguments whose URL url.Parse accepts, PathOf is
\* the path downloadExt and downloadTemp compute from them.
Inputs == {in \in URLs \X Exts : Parse(in[1]).ok}

PathOf == [in \in Inputs |-> downloadTempPath(downloadBase(in[1], in[2]))]

FinalPaths == {PathOf[in] : in \in Inputs}

TmpOf == [f \in FinalPaths |-> tempDestination(f)]

AllPaths == FinalPaths \cup {TmpOf[f] : f \in FinalPaths}

\* Response bodies: byte strings of up to MaxBody bytes.
Byte == {1, 2}

Bodies == UNION {[1..n -> Byte] : n \in 0..MaxBody}

\* The HTTP status codes a server answers with.
StatusOK == 200
Statuses == {StatusOK, 404}

\* A pipeline instance is a process running the program.
Pipelines == {1, 2}

\* Files are inodes; a directory entry names one, an open handle holds one.
NoInode == 0
Inodes == 1..(Cardinality(AllPaths) + Cardinality(Pipelines))

NoCall == [rawurl |-> <<>>, ext |-> <<>>, force |-> FALSE, dest |-> <<>>]
NoResponse == [status |-> 0, body |-> <<>>, read |-> 0]

VARIABLES
    dir,        \* the cache directory: path -> inode, NoInode when absent
    data,       \* inode -> content
    pc,         \* pipeline -> where it is in ensure
    call,       \* pipeline -> the arguments of its current call, and its cache path
    resp,       \* pipeline -> the response being read
    fd,         \* pipeline -> the inode its destination handle holds
    open,       \* pipeline -> the resources acquired and not released
    requests,   \* pipeline -> network requests issued by the current call
    ret,        \* pipeline -> the path the current call returned
    failedAt,   \* pipeline -> the step whose failure ended the process
    snap,       \* pipeline -> the directory and contents when the call began
    prev,       \* pipeline -> the call before the current one, when it returned
    returned,   \* every <<rawurl, ext, path>> a call has returned
    calls       \* calls made so far

cacheVars == <<dir, data, pc, call, resp, fd, open, requests, ret, failedAt,
               snap, prev, returned, calls>>

\* dry.FileExists: os.Stat succeeds.
FileExists(path) == dir[path] # NoInode

\* The content at a path, <<>> when there is no file.
ContentAt(d, dt, path) == IF d[path] = NoInode THEN <<>> ELSE dt[d[path]]

\* An inode no directory entry names and no handle holds.
Referenced(d, f) == {d[n] : n \in AllPaths} \cup {f[p] : p \in Pipelines}
FreeInode == CHOOSE i \in Inodes : i \notin Referenced(dir, fd)
                                     /\ \A j \in Inodes : j \notin Referenced(dir, fd) => i <= j

\* The contents once unreferenced inodes are freed.
Collect(d, f, dt) == [i \in Inodes |-> IF i \in Referenced(d, f) THEN dt[i] ELSE <<>>]

\* A write of byte b at offset off (bytes before a later offset read as 0).
RECURSIVE PadTo(_, _)
PadTo(c, n) == IF Len(c) >= n THEN c ELSE PadTo(Append(c, 0), n)

WriteAtLost(c, off, b) == c
WriteAt(c, off, b) ==
    IF off < Len(c) THEN [c EXCEPT ![off + 1] = b]
    ELSE Append(PadTo(c, off), b)

\* log.Fatalf: the message is logged and os.Exit ends the process, deferred
\* calls do not run; the system closes the handles of the process.
Fatal(p, step) ==
    /\ pc' = [pc EXCEPT ![p] = "fatal"]
    /\ failedAt' = [failedAt EXCEPT ![p] = step]
    /\ fd' = [fd EXCEPT ![p] = NoInode]

NoPrev == [valid |-> FALSE, rawurl |-> <<>>, ext |-> <<>>, force |-> FALSE,
           ret |-> <<>>, requests |-> 0, existed |-> FALSE]

\* The record kept of a call that has returned.
PrevOf(p) ==
    IF pc[p] = "returned"
    THEN [valid |-> TRUE, rawurl |-> call[p].rawurl, ext |-> call[p].ext,
          force |-> call[p].force, ret |-> ret[p], requests |-> requests[p],
          existed |-> snap[p].dir[call[p].dest] # NoInode]
    ELSE NoPrev

\* A file some earlier run of the program left in the cache.
CachedBody == <<2>>

CacheInit(warmPaths) ==
    /\ \E warm \in SUBSET warmPaths :
          /\ Cardinality(warm) <= 1
          /\ dir = [n \in AllPaths |-> IF n \in warm THEN 1 ELSE NoInode]
          /\ data = [i \in Inodes |-> IF i = 1 /\ warm # {} THEN CachedBody ELSE <<>>]
          /\ snap = [p \in Pipelines |->
                        [dir |-> [n \in AllPaths |-> IF n \in warm THEN 1 ELSE NoInode],
                         data |-> [i \in Inodes |->
                                     IF i = 1 /\ warm # {} THEN CachedBody ELSE <<>>]]]
    /\ pc = [p \in Pipelines |-> "idle"]
    /\ call = [p \in Pipelines |-> NoCall]
    /\ resp = [p \in Pipelines |-> NoResponse]
    /\ fd = [p \in Pipelines |-> NoInode]
    /\ open = [p \in Pipelines |-> {}]
    /\ requests = [p \in Pipelines |-> 0]
    /\ ret = [p \in Pipelines |-> <<>>]
    /\ failedAt = [p \in Pipelines |-> "none"]
    /\ prev = [p \in Pipelines |-> NoPrev]
    /\ returned = {}
    /\ calls = 0

\* downloadExt, downloadTemp and maybeDownload up to the call of download:
\* ensure(rawurl, ext, force), made by a process that is idle or whose last call
\* returned, with a URL and an extension from the given sets.
Ensure(p, urls, exts) ==
    /\ pc[p] \in {"idle", "returned"}
    /\ calls < MaxCalls
    /\ calls' = calls + 1
    /\ \E rawurl \in urls, ext \in exts, force \in BOOLEAN :
          /\ prev' = [prev EXCEPT ![p] = PrevOf(p)]
          /\ snap' = [snap EXCEPT ![p] = [dir |-> dir, data |-> data]]
          /\ requests' = [requests EXCEPT ![p] = 0]
          /\ resp' = [resp EXCEPT ![p] = NoResponse]
          /\ IF <<rawurl, ext>> \notin Inputs
             THEN /\ Fatal(p, "parse")
                  /\ call' = [call EXCEPT ![p] = [rawurl |-> rawurl, ext |-> ext,
                                                  force |-> force, dest |-> <<>>]]
                  /\ ret' = [ret EXCEPT ![p] = <<>>]
                  /\ UNCHANGED returned
             ELSE LET destinationPath == PathOf[<<rawurl, ext>>]
                  IN  /\ call' = [call EXCEPT ![p] = [rawurl |-> rawurl, ext |-> ext,
                                                      force |-> force,
                                                      dest |-> destinationPath]]
                      /\ IF needsDownload(FileExists(destinationPath), force)
                         THEN /\ pc' = [pc EXCEPT ![p] = "create"]
                              /\ ret' = [ret EXCEPT ![p] = <<>>]
                              /\ UNCHANGED returned
                         ELSE /\ pc' = [pc EXCEPT ![p] = "returned"]
                              /\ ret' = [ret EXCEPT ![p] = destinationPath]
                              /\ returned' = returned \cup {<<rawurl, ext, destinationPath>>}
                      /\ UNCHANGED <<fd, failedAt>>
    /\ UNCHANGED <<dir, data, open>>

\* os.Create opens with O_TRUNC: the content of an existing file is dropped.
KeepContent(c) == c
truncate(c) == <<>>

\* download: os.Create(tempDestinationPath) and the deferred Close.
Create(p) ==
    /\ pc[p] = "create"
    /\ LET tmp == tempDestination(call[p].dest)
           i == IF dir[tmp] = NoInode THEN FreeInode ELSE dir[tmp]
       IN  \/ /\ dir' = [dir EXCEPT ![tmp] = i]
              /\ data' = [data EXCEPT ![i] = truncate(@)]
              /\ fd' = [fd EXCEPT ![p] = i]
              /\ open' = [open EXCEPT ![p] = @ \cup {"destination"}]
              /\ pc' = [pc EXCEPT ![p] = "get"]
              /\ UNCHANGED failedAt
           \/ /\ Fatal(p, "create")
              /\ UNCHANGED <<dir, data, open>>
    /\ UNCHANGED <<call, resp, requests, ret, snap, prev, returned, calls>>

\* download: CustomGet(rawurl) and the deferred response.Body.Close; the server
\* answers with a status and one of the given bodies, or the request fails.
Get(p, bodies) ==
    /\ pc[p] = "get"
    /\ requests' = [requests EXCEPT ![p] = @ + 1]
    /\ \/ /\ \E status \in Statuses, body \in bodies :
                 /\ status # StatusOK => body = <<>>
                 /\ resp' = [resp EXCEPT ![p] = [status |-> status, body |-> body,
                                                 read |-> 0]]
          /\ open' = [open EXCEPT ![p] = @ \cup {"body"}]
          /\ pc' = [pc EXCEPT ![p] = "status"]
          /\ UNCHANGED <<fd, failedAt, data>>
       \/ /\ Fatal(p, "connect")
          /\ data' = Collect(dir, fd', data)
          /\ UNCHANGED <<resp, open>>
    /\ UNCHANGED <<dir, call, ret, snap, prev, returned, calls>>

\* download: the check of response.StatusCode, then the progress bar.
Status(p) ==
    /\ pc[p] = "status"
    /\ IF resp[p].status # StatusOK
       THEN /\ Fatal(p, "status")
            /\ data' = Collect(dir, fd', data)
            /\ UNCHANGED open
       ELSE /\ open' = [open EXCEPT ![p] = @ \cup {"progressBar"}]
            /\ pc' = [pc EXCEPT ![p] = "copy"]
            /\ UNCHANGED <<fd, failedAt, data>>
    /\ UNCHANGED <<dir, call, resp, requests, ret, snap, prev, returned, calls>>

\* download: io.Copy(writer, response.Body), a byte at a time; a read or a
\* write can fail at any point of it.
Copy(p) ==
    /\ pc[p] = "copy"
    /\ \/ /\ resp[p].read < Len(resp[p].body)
          /\ data' = [data EXCEPT ![fd[p]] =
                         WriteAt(@, resp[p].read, resp[p].body[resp[p].read + 1])]
          /\ resp' = [resp EXCEPT ![p].read = @ + 1]
          /\ UNCHANGED <<pc, fd, failedAt>>
       \/ /\ resp[p].read = Len(resp[p].body)
          /\ pc' = [pc EXCEPT ![p] = "close"]
          /\ UNCHANGED <<data, resp, fd, failedAt>>
       \/ /\ Fatal(p, "copy")
          /\ data' = Collect(dir, fd', data)
          /\ UNCHANGED resp
    /\ UNCHANGED <<dir, call, open, requests, ret, snap, prev, returned, calls>>

\* download: destination.Close().
Close(p) ==
    /\ pc[p] = "close"
    /\ \/ /\ fd' = [fd EXCEPT ![p] = NoInode]
          /\ open' = [open EXCEPT ![p] = @ \ {"destination"}]
          /\ pc' = [pc EXCEPT ![p] = "rename"]
          /\ UNCHANGED failedAt
       \/ /\ Fatal(p, "close")
          /\ UNCHANGED open
    /\ data' = Collect(dir, fd', data)
    /\ UNCHANGED <<dir, call, resp, requests, ret, snap, prev, returned, calls>>

\* download: os.Rename(tempDestinationPath, destinationPath), and on success the
\* return through the deferred calls, back to downloadTemp, which returns the path.
Rename(p) ==
    /\ pc[p] = "rename"
    /\ LET tmp == tempDestination(call[p].dest)
           dest == call[p].dest
       IN  \/ /\ dir[tmp] # NoInode
              /\ dir' = IF tmp = dest THEN dir
                         ELSE [dir EXCEPT ![dest] = dir[tmp], ![tmp] = NoInode]
              /\ data' = Collect(dir', fd, data)
              /\ open' = [open EXCEPT ![p] = {}]
              /\ pc' = [pc EXCEPT ![p] = "returned"]
              /\ ret' = [ret EXCEPT ![p] = dest]
              /\ returned' = returned \cup {<<call[p].rawurl, call[p].ext, dest>>}
              /\ UNCHANGED <<fd, failedAt>>
           \/ /\ Fatal(p, "rename")
              /\ UNCHANGED <<dir, data, open, ret, returned>>
    /\ UNCHANGED <<call, resp, requests, snap, prev, calls>>

\* The program is run again after a fatal exit.
Restart(p) ==
    /\ pc[p] = "fatal"
    /\ calls < MaxCalls
    /\ pc' = [pc EXCEPT ![p] = "idle"]
    /\ open' = [open EXCEPT ![p] = {}]
    /\ failedAt' = [failedAt EXCEPT ![p] = "none"]
    /\ UNCHANGED <<dir, data, call, resp, fd, requests, ret, snap, prev, returned, calls>>

(***************************************************************************)
(* The content fetcher: CustomGet.                                         *)
(***************************************************************************)
MaxGets == 2        \* CustomGet calls made in one behaviour

\* strings.Contains.
Contains(s, substr) ==
    \E i \in 1..(Len(s) - Len(substr) + 1) : SubSeq(s, i, i + Len(substr) - 1) = substr

\* The host strings the request URL is matched against.
CodeplexHost ==
    <<"d", "o", "w", "n", "l", "o", "a", "d", "-", "c", "o", "d", "e", "p",
      "l", "e", "x", ".", "s", "e", "c", ".", "s", "-", "m", "s", "f", "t",
      ".", "c", "o", "m">>

AtiHost ==
    <<"a", "t", "i", ".", "c", "o", "m">>

\* The values of the headers the rules set.
ChocolateyUserAgent == "chocolatey command line"
AmdReferer == "http://support.amd.com/"

\* The two URLs the licence cookie is stored for, and the cookie.
OracleURL == "http://download.oracle.com"
OracleEdeliveryURL == "https://edelivery.oracle.com"
OracleCookies == {[Name |-> "oraclelicense", Value |-> "accept-securebackup-cookie"]}

\* The request URLs of the model: the redirector host, the vendor host, the
\* vendor host string inside another host name, both host strings in one URL, a
\* licence-gated host with a path, a URL that matches no rule, and a URL
\* http.NewRequest rejects.
CodeplexURL ==
    <<"h", "t", "t", "p", ":", "/", "/", "d", "o", "w", "n", "l", "o", "a",
      "d", "-", "c", "o", "d", "e", "p", "l", "e", "x", ".", "s", "e", "c",
      ".", "s", "-", "m", "s", "f", "t", ".", "c", "o", "m", "/", "f">>

AtiURL ==
    <<"h", "t", "t", "p", ":", "/", "/", "w", "w", "w", "2", ".", "a", "t",
      "i", ".", "c", "o", "m", "/", "d", ".", "e", "x", "e">>

CreatiURL ==
    <<"h", "t", "t", "p", ":", "/", "/", "c", "r", "e", "a", "t", "i", ".",
      "c", "o", "m", ".", "e", "x", "a", "m", "p", "l", "e", "/", "x">>

BothURL ==
    <<"h", "t", "t", "p", ":", "/", "/", "a", "t", "i", ".", "c", "o", "m",
      "/", "?", "r", "=", "d", "o", "w", "n", "l", "o", "a", "d", "-", "c",
      "o", "d", "e", "p", "l", "e", "x", ".", "s", "e", "c", ".", "s", "-",
      "m", "s", "f", "t", ".", "c", "o", "m">>

OraclePathURL ==
    <<"h", "t", "t", "p", ":", "/", "/", "d", "o", "w", "n", "l", "o", "a",
      "d", ".", "o", "r", "a", "c", "l", "e", ".", "c", "o", "m", "/", "o",
      "t", "n", "/", "j", ".", "e", "x", "e">>

PlainURL ==
    <<"h", "t", "t", "p", "s", ":", "/", "/", "e", "x", "a", "m", "p", "l",
      "e", ".", "o", "r", "g", "/", "s", ".", "e", "x", "e">>

BadURL == <<":", "a">>

GetURLs == {CodeplexURL, AtiURL, CreatiURL, BothURL, OraclePathURL, PlainURL, BadURL}

\* The variadic timeout argument: absent, one duration, or more than one.
Durations == {1, 2}
Timeouts == {<<>>} \cup {<<d>> : d \in Durations} \cup {<<2, 1>>}

\* The timeout of the client fetch.NewClient returns.
StandardTimeout == 0

\* http.Header: Get returns "" for a header that is not set.
HeaderNames == {"User-Agent", "Referer"}
NoHeaders == [h \in HeaderNames |-> ""]
HeaderSet(header, key, value) == [header EXCEPT ![key] = value]

\* CustomGet: the header rules, each an if of its own.
RequestHeaderFirstMatch(urlStr) ==
    IF Contains(urlStr, CodeplexHost)
    THEN HeaderSet(NoHeaders, "User-Agent", ChocolateyUserAgent)
    ELSE IF Contains(urlStr, AtiHost)
    THEN HeaderSet(NoHeaders, "Referer", AmdReferer)
    ELSE NoHeaders
requestHeader(urlStr) ==
    LET codeplex == IF Contains(urlStr, CodeplexHost)
                    THEN HeaderSet(NoHeaders, "User-Agent", ChocolateyUserAgent)
                    ELSE NoHeaders
    IN  IF Contains(urlStr, AtiHost)
        THEN HeaderSet(codeplex, "Referer", AmdReferer)
        ELSE codeplex

\* cookiejar: New(nil) and SetCookies for an http or https URL.
JarURLs == {OracleURL, OracleEdeliveryURL}
NewJar == [u \in JarURLs |-> {}]
SetCookies(jar, u, cookies) == [jar EXCEPT ![u] = @ \cup cookies]

\* CustomGet: the jar of the client.
clientJar ==
    SetCookies(SetCookies(NewJar, OracleURL, OracleCookies),
               OracleEdeliveryURL, OracleCookies)

\* CustomGet: the timeout of the client.
clientTimeout(timeout) == IF Len(timeout) > 0 THEN timeout[1] ELSE StandardTimeout

\* CustomGet up to client.Do: the request and the client it is sent with;
\* ok = FALSE when http.NewRequest returns an error.
NoRequest == [ok |-> FALSE, url |-> <<>>, header |-> NoHeaders, jar |-> NewJar,
              timeout |-> StandardTimeout]

buildRequest(urlStr, timeout) ==
    IF ~Parse(urlStr).ok THEN NoRequest
    ELSE [ok |-> TRUE, url |-> urlStr, header |-> requestHeader(urlStr),
          jar |-> clientJar, timeout |-> clientTimeout(timeout)]

VARIABLES
    getArgs,      \* the arguments of the last CustomGet call
    getResult,    \* what it returned: none, response, error
    dispatched,   \* the requests client.Do has sent, in order
    gets          \* calls made so far

getVars == <<getArgs, getResult, dispatched, gets>>

NoGetArgs == [urlStr |-> <<>>, timeout |-> <<>>]

GetInit ==
    /\ getArgs = NoGetArgs
    /\ getResult = "none"
    /\ dispatched = <<>>
    /\ gets = 0

\* CustomGet(urlStr, timeout...): the request is built, the rules are applied,
\* and client.Do sends it and returns a response or an error.
CustomGet ==
    /\ gets < MaxGets
    /\ gets' = gets + 1
    /\ \E urlStr \in GetURLs, timeout \in Timeouts :
          LET request == buildRequest(urlStr, timeout)
          IN  /\ getArgs' = [urlStr |-> urlStr, timeout |-> timeout]
              /\ IF ~request.ok
                 THEN /\ getResult' = "error"
                      /\ UNCHANGED dispatched
                 ELSE /\ dispatched' = Append(dispatched, request)
                      /\ getResult' \in {"response", "error"}

(***************************************************************************)
(* The specifications: each runs one component from its initial states     *)
(* and leaves the others idle.                                             *)
(***************************************************************************)
vars == <<expandVars, systemVars, zipVars, cacheVars, getVars>>

\* expandString called once, for every environment, context and template.
ExpandNext ==
    \/ ExpandString /\ UNCHANGED <<systemVars, zipVars, cacheVars, getVars>>

InitExpand == ExpandInit /\ SystemInit /\ ZipIdle /\ CacheInit({}) /\ GetInit

SpecExpand == InitExpand /\ [][ExpandNext]_vars

\* system called up to MaxRuns times.
SystemNext ==
    \/ System /\ UNCHANGED <<expandVars, zipVars, cacheVars, getVars>>
    \/ ChildExit /\ UNCHANGED <<expandVars, zipVars, cacheVars, getVars>>
    \/ Wait /\ UNCHANGED <<expandVars, zipVars, cacheVars, getVars>>
    \/ WaitFails /\ UNCHANGED <<expandVars, zipVars, cacheVars, getVars>>

InitSystem == ExpandIdle /\ SystemInit /\ ZipIdle /\ CacheInit({}) /\ GetInit

SpecSystem == InitSystem /\ [][SystemNext]_vars

\* extractZip called once, for every archive.
ZipNext ==
    \/ ExtractZip /\ UNCHANGED <<expandVars, systemVars, cacheVars, getVars>>
    \/ ExtractDir /\ UNCHANGED <<expandVars, systemVars, cacheVars, getVars>>
    \/ ExtractFile /\ UNCHANGED <<expandVars, systemVars, cacheVars, getVars>>
    \/ ExtractDone /\ UNCHANGED <<expandVars, systemVars, cacheVars, getVars>>

InitZip == ExpandIdle /\ SystemInit /\ ZipInit /\ CacheInit({}) /\ GetInit

SpecZip == InitZip /\ [][ZipNext]_vars

\* The URLs and extensions of the cache specification: two packages, whose
\* extension comes from the URL.
CacheURLs == { <<"h", ":", "/", "/", "a", "/", "a", ".", "2">>,
               <<"h", ":", "/", "/", "a", "/", "b", "%", "2", "E", "z">> }
CacheExts == { <<>> }
CachePaths == {PathOf[in] : in \in CacheURLs \X CacheExts}

CacheNext ==
    \/ Ensure(1, CacheURLs, CacheExts) /\ UNCHANGED <<expandVars, systemVars, zipVars, getVars>>
    \/ Create(1) /\ UNCHANGED <<expandVars, systemVars, zipVars, getVars>>
    \/ Get(1, Bodies) /\ UNCHANGED <<expandVars, systemVars, zipVars, getVars>>
    \/ Status(1) /\ UNCHANGED <<expandVars, systemVars, zipVars, getVars>>
    \/ Copy(1) /\ UNCHANGED <<expandVars, systemVars, zipVars, getVars>>
    \/ Close(1) /\ UNCHANGED <<expandVars, systemVars, zipVars, getVars>>
    \/ Rename(1) /\ UNCHANGED <<expandVars, systemVars, zipVars, getVars>>
    \/ Restart(1) /\ UNCHANGED <<expandVars, systemVars, zipVars, getVars>>

\* One pipeline instance making ensure calls one after the other, from a cache
\* that is empty or holds one file.
InitCache == ExpandIdle /\ SystemInit /\ ZipIdle /\ CacheInit(CachePaths) /\ GetInit

SpecCache == InitCache /\ [][CacheNext]_vars

\* CustomGet called up to MaxGets times, for every URL and timeout.
GetNext ==
    \/ CustomGet /\ UNCHANGED <<expandVars, systemVars, zipVars, cacheVars>>

InitGet == ExpandIdle /\ SystemInit /\ ZipIdle /\ CacheInit({}) /\ GetInit

SpecGet == InitGet /\ [][GetNext]_vars

\* The race specification: two pipeline instances, one package, a server that
\* answers 200 with a body of MaxBody bytes whose first and last byte differ, and
\* a filesystem with no failure of its own: a step fails only when another
\* instance made it fail.  os.Rename fails when the ".tmp" file is gone; where
\* an open handle of another process forbids the rename (a file opened without
\* delete sharing), it can fail for that reason too.
RaceURLs == { <<"h", ":", "/", "/", "a", "/", "a", ".", "2">> }
RaceExts == { <<>> }
RacePaths == {PathOf[in] : in \in RaceURLs \X RaceExts}
RaceBodies == {b \in [1..MaxBody -> Byte] : b[1] # b[MaxBody]}

RenameBlocked(p) ==
    LET tmp == tempDestination(call[p].dest)
    IN  \/ dir[tmp] = NoInode
        \/ \E q \in Pipelines \ {p} : fd[q] = dir[tmp]

RaceNext ==
    \/ \E p \in Pipelines : Ensure(p, RaceURLs, RaceExts)
                               /\ UNCHANGED <<expandVars, systemVars, zipVars, getVars>>
    \/ \E p \in Pipelines : Create(p) /\ pc'[p] # "fatal"
                               /\ UNCHANGED <<expandVars, systemVars, zipVars, getVars>>
    \/ \E p \in Pipelines : Get(p, RaceBodies) /\ pc'[p] # "fatal"
                               /\ resp'[p].status = StatusOK
                               /\ UNCHANGED <<expandVars, systemVars, zipVars, getVars>>
    \/ \E p \in Pipelines : Status(p)
                               /\ UNCHANGED <<expandVars, systemVars, zipVars, getVars>>
    \/ \E p \in Pipelines : Copy(p) /\ pc'[p] # "fatal"
                               /\ UNCHANGED <<expandVars, systemVars, zipVars, getVars>>
    \/ \E p \in Pipelines : Close(p) /\ pc'[p] # "fatal"
                               /\ UNCHANGED <<expandVars, systemVars, zipVars, getVars>>
    \/ \E p \in Pipelines : Rename(p) /\ (pc'[p] = "fatal" => RenameBlocked(p))
                               /\ UNCHANGED <<expandVars, systemVars, zipVars, getVars>>

InitRace == ExpandIdle /\ SystemInit /\ ZipIdle /\ CacheInit(RacePaths) /\ GetInit

SpecRace == InitRace /\ [][RaceNext]_vars

\* The body the servers of the path specification answer with.
PathBodies == { <<1>> }

PathNext ==
    \/ Ensure(1, URLs, Exts) /\ UNCHANGED <<expandVars, systemVars, zipVars, getVars>>
    \/ Create(1) /\ UNCHANGED <<expandVars, systemVars, zipVars, getVars>>
    \/ Get(1, PathBodies) /\ UNCHANGED <<expandVars, systemVars, zipVars, getVars>>
    \/ Status(1) /\ UNCHANGED <<expandVars, systemVars, zipVars, getVars>>
    \/ Copy(1) /\ UNCHANGED <<expandVars, systemVars, zipVars, getVars>>
    \/ Close(1) /\ UNCHANGED <<expandVars, systemVars, zipVars, getVars>>
    \/ Rename(1) /\ UNCHANGED <<expandVars, systemVars, zipVars, getVars>>
    \/ Restart(1) /\ UNCHANGED <<expandVars, systemVars, zipVars, getVars>>

\* One pipeline instance making ensure calls with every URL and extension.
InitPath == ExpandIdle /\ SystemInit /\ ZipIdle /\ CacheInit(CachePaths) /\ GetInit

SpecPaths == InitPath /\ [][PathNext]_vars

(***************************************************************************)
(* Claims about the string expander.                                       *)
(***************************************************************************)
\* The variable names the template refers to.
FieldsOf(s) ==
    LET nodes == parseTemplate(s).nodes
    IN  {nodes[i].text : i \in {j \in 1..Len(nodes) : nodes[j].field}}

\* The name environMap files a model entry under: upper case, "(X86)" written
\* "_X86".  Written out per entry, not computed by normalizeName.
KnownKey(entry) ==
    CASE entry = <<"F", "o", "o", "=", "1">> -> <<"F", "O", "O">>
      [] entry = <<"F", "O", "O", "=", "2">> -> <<"F", "O", "O">>
      [] entry = <<"P", "(", "x", "8", "6", ")", "=", "3">> -> <<"P", "_", "X", "8", "6">>
      [] OTHER -> <<>>

KnownValue(entry) ==
    CASE entry = <<"F", "o", "o", "=", "1">> -> <<"1">>
      [] entry = <<"F", "O", "O", "=", "2">> -> <<"2">>
      [] entry = <<"P", "(", "x", "8", "6", ")", "=", "3">> -> <<"3">>
      [] OTHER -> <<>>

\* The entries of the environment that define name, by position.
Defining(name) ==
    {i \in 1..Len(environ) : environ[i] # <<"=">> /\ KnownKey(environ[i]) = name}

\* name is defined neither by the caller's context nor by the environment.
Undefined(name) == name \notin DOMAIN context /\ Defining(name) = {}

\* C5: expandString fails whenever the template refers to a variable that is
\* neither in the caller's context nor in the normalized environment; it
\* returns no string for such a template.
C5_UndefinedReferenceFails ==
    (expanded.outcome # "none" /\ \E name \in FieldsOf(template) : Undefined(name))
        => expanded.outcome = "panic"

\* The value the claim gives a variable: the caller's when the caller supplies
\* the name, else that of the environment entry with that normalized name (the
\* last such entry when there are several), else nothing.
ClaimedValue(name) ==
    IF name \in DOMAIN context THEN context[name]
    ELSE IF Defining(name) # {}
         THEN KnownValue(environ[CHOOSE i \in Defining(name) :
                                     \A j \in Defining(name) : j <= i])
    ELSE <<>>

RECURSIVE ClaimedText(_)
ClaimedText(nodes) ==
    IF nodes = <<>> THEN <<>>
    ELSE (IF Head(nodes).field THEN ClaimedValue(Head(nodes).text)
          ELSE Head(nodes).text) \o ClaimedText(Tail(nodes))

ClaimedClass(code, err) ==
    /\ code = 0 => err = NilError
    /\ code = RebootRequired => err = NilError
    /\ code \notin {0, RebootRequired} => err.kind = "exit" /\ err.code = code

\* C4: system returns no error for exit code 0 and for exit code 3010, an error
\* carrying the code for every other exit code, and an error when the process
\* could not be started.
C4_ExitCodeClassification ==
    /\ \A o \in outcomes : ClaimedClass(o[1], o[2])
    /\ (sysPc = "returned" /\ Len(args) > 0) =>
          /\ child = "none" => sysErr = StartError
          /\ (child = "exited" /\ sysErr # WaitError) => ClaimedClass(exitCode, sysErr)
          /\ child # "running"

\* C4's case: one call returned no error for a child that exited with 3010,
\* after another returned an error carrying code 1.
C4_Witness ==
    /\ sysPc = "returned"
    /\ child = "exited" /\ exitCode = RebootRequired /\ sysErr = NilError
    /\ <<1, ExitError(1)>> \in outcomes

\* C10: what system returns to its caller for a child that exited with 3010
\* differs from what it returns for a child that exited with 0, and both are
\* successes.
C10_RebootReportedDistinctly ==
    \A o1, o2 \in outcomes :
        (o1[1] = 0 /\ o2[1] = RebootRequired) =>
            /\ o1[2] # o2[2]
            /\ o1[2].kind \notin {"start", "exit", "wait"}
            /\ o2[2].kind \notin {"start", "exit", "wait"}

\* C17: a system call makes no attempt to start a child for an empty argument
\* vector, and returns no error; it makes exactly one attempt otherwise, and the
\* number of attempts does not change for the rest of the call, whether the
\* start failed or the child exited with a failing code; and a call whose start
\* succeeded has returned only once the child has exited.
C17_OneSpawnAttemptPerCall ==
    /\ [](/\ spawns = (IF Len(args) = 0 THEN 0 ELSE 1)
          /\ (sysPc = "returned" /\ Len(args) = 0)
                => (sysErr = NilError /\ child = "none")
          /\ (sysPc = "returned" /\ Len(args) > 0)
                => child \in {"none", "exited"}
          /\ (sysPc = "returned" /\ sysErr = StartError) => child = "none"
          /\ sysPc = "waiting" => child \in {"running", "exited"})
    /\ [][runs' = runs => (spawns' = spawns /\ args' = args)]_vars
    /\ [][(sysPc = "waiting" /\ sysPc' = "returned") => child = "exited"]_vars

\* C17's case: the second call of a behaviour returned the error of a child
\* that exited with code 1, after one attempt to start it.
C17_Witness ==
    /\ runs = 2
    /\ sysPc = "returned" /\ Len(args) > 0
    /\ child = "exited" /\ exitCode = 1 /\ sysErr = ExitError(1)
    /\ spawns = 1

(***************************************************************************)
(* Claims about the archive extractor.                                     *)
(***************************************************************************)
\* C8: extractZip fails fast: when the content of an entry is not copied in
\* full it returns an error at that entry and goes on to no later entry; it
\* never returns nil after a copy failed.
C8_ExtractFailsFast ==
    zipPc = "returned" => \A i \in cut : zipErr = "error" /\ zipIdx = i

\* The directories above a path, extractTo included.
Ancestors(path) == {SubSeq(path, 1, n) : n \in 0..(Len(path) - 1)}

\* C9: when extractZip returns nil, every file entry is a file at its path
\* below extractTo with exactly the bytes of the entry, every directory above it
\* exists, and every directory entry is a directory with the permission bits
\* the archive records for it.
C9_ExtractedTreeMatchesArchive ==
    (zipPc = "returned" /\ zipErr = "nil") =>
        \A i \in 1..Len(archive) :
            IF archive[i].isDir
            THEN /\ tree[archive[i].name].kind = "dir"
                 /\ tree[archive[i].name].mode = archive[i].mode
            ELSE /\ tree[archive[i].name] = FileNode(archive[i].content)
                 /\ \A d \in Ancestors(archive[i].name) : tree[d].kind = "dir"

(***************************************************************************)
(* Claims about the download cache.                                        *)
(***************************************************************************)
\* The steps of download that come before the rename.
BeforeRename == {"create", "connect", "status", "copy", "close"}

FailedBeforeRename(p) == pc[p] = "fatal" /\ failedAt[p] \in BeforeRename

\* C1, as stated: after an ensure call whose fetch failed before the rename,
\* whatever the force flag and the prior cache state, no file exists at the
\* final cache path.
C1_NoFileAtFinalPathAfterFailure ==
    \A p \in Pipelines :
        FailedBeforeRename(p) => dir[call[p].dest] = NoInode

\* C1, amended: after an ensure call whose fetch failed before the rename, the
\* final cache path is as it was when the call began: still absent when no file
\* was there (always so when force is false), still the same file with the same
\* content when one was there; of all paths only the final path + ".tmp" may
\* have changed.
C1_FailureLeavesFinalPathAsItWas ==
    \A p \in Pipelines :
        FailedBeforeRename(p) =>
            /\ dir[call[p].dest] = snap[p].dir[call[p].dest]
            /\ ContentAt(dir, data, call[p].dest)
                   = ContentAt(snap[p].dir, snap[p].data, call[p].dest)
            /\ ~call[p].force => dir[call[p].dest] = NoInode
            /\ \A n \in AllPaths \ {tempDestination(call[p].dest)} :
                   /\ (dir[n] = NoInode) = (snap[p].dir[n] = NoInode)
                   /\ ContentAt(dir, data, n) = ContentAt(snap[p].dir, snap[p].data, n)

\* C1's case: the copy failed part-way through the body, the final path is
\* absent and the partial body is at the ".tmp" path.
C1_Witness ==
    \E p \in Pipelines :
        /\ pc[p] = "fatal" /\ failedAt[p] = "copy"
        /\ resp[p].read >= 1 /\ resp[p].read < Len(resp[p].body)
        /\ dir[call[p].dest] = NoInode
        /\ ContentAt(dir, data, tempDestination(call[p].dest))
               = SubSeq(resp[p].body, 1, resp[p].read)

\* A call that found its file in the cache and was not forced.
CacheHit(p) ==
    /\ pc[p] = "returned"
    /\ ~call[p].force
    /\ snap[p].dir[call[p].dest] # NoInode

\* Two consecutive calls of one process with the same URL and extension, both
\* with force false, both returned.
SameCallTwice(p) ==
    /\ pc[p] = "returned"
    /\ prev[p].valid
    /\ prev[p].rawurl = call[p].rawurl /\ prev[p].ext = call[p].ext
    /\ ~prev[p].force /\ ~call[p].force

\* C2, as stated: two consecutive ensure(url, ext, false) calls return the same
\* path and perform exactly one network fetch in total.
C2_TwoCallsFetchExactlyOnce ==
    \A p \in Pipelines :
        SameCallTwice(p) =>
            /\ ret[p] = prev[p].ret
            /\ prev[p].requests + requests[p] = 1

\* C2, amended: a call with force false that finds a file at the cache path
\* returns that path with no network request and with the directory and every
\* file as they were; two consecutive such calls return the same path, the second
\* fetches nothing, and together they fetch at most once: once when the path was
\* empty before the first call, not at all when it already held a file.
C2_CacheHitIsFreeOfEffects ==
    \A p \in Pipelines :
        /\ CacheHit(p) =>
               /\ requests[p] = 0
               /\ ret[p] = call[p].dest
               /\ dir = snap[p].dir
               /\ data = snap[p].data
        /\ SameCallTwice(p) =>
               /\ ret[p] = prev[p].ret
               /\ requests[p] = 0
               /\ prev[p].requests + requests[p] = IF prev[p].existed THEN 0 ELSE 1

\* C2's case: the first call fetched, the second was a cache hit.
C2_Witness ==
    \E p \in Pipelines :
        /\ SameCallTwice(p) /\ CacheHit(p)
        /\ ~prev[p].existed /\ prev[p].requests = 1
        /\ requests[p] = 0

\* A call that has ended, by returning or by a fatal exit.
Ended(p) == pc[p] \in {"returned", "fatal"}

\* C3, as stated: every ensure(url, ext, true) call issues a network fetch.
C3_EveryForcedCallFetches ==
    \A p \in Pipelines :
        (Ended(p) /\ call[p].force) => requests[p] >= 1

\* C3, amended: an ensure(url, ext, true) call never returns without having
\* fetched, whether or not a file exists at the cache path: it issues exactly one
\* network fetch unless the URL does not parse or the temporary file cannot be
\* created, which end the process before any request; and when it returns, the
\* file at the cache path is the body just fetched.
C3_ForcedCallFetchesAndReplaces ==
    \A p \in Pipelines :
        call[p].force =>
            /\ pc[p] \in {"status", "copy", "close", "rename", "returned"}
                   => requests[p] = 1
            /\ pc[p] = "fatal" => (requests[p] = 0) = (failedAt[p] \in {"parse", "create"})
            /\ pc[p] = "returned" =>
                   /\ resp[p].status = StatusOK
                   /\ dir[call[p].dest] # NoInode
                   /\ ContentAt(dir, data, call[p].dest) = resp[p].body

\* C3's case: a forced call returned with a file in the cache before it, and
\* the file now holds the new body, which differs from the old one.
C3_Witness ==
    \E p \in Pipelines :
        /\ pc[p] = "returned" /\ call[p].force
        /\ snap[p].dir[call[p].dest] # NoInode
        /\ ContentAt(snap[p].dir, snap[p].data, call[p].dest) # resp[p].body
        /\ ContentAt(dir, data, call[p].dest) = resp[p].body

\* The IEEE CRC-32 of the model's URLs in upper-case hexadecimal, from tables of
\* the checksum and not from the model's crc32s.
KnownSum(rawurl) ==
    CASE rawurl = <<"h", ":", "/", "/", "a", "/", "a", ".", "2">>
            -> <<"C", "7", "6", "9", "E", "1", "F">>
      [] rawurl = <<"h", ":", "/", "/", "a", ".", "b", "/", "z">>
            -> <<"D", "7", "9", "0", "B", "F", "C", "0">>
      [] rawurl = <<"h", ":", "/", "/", "a", "/", "b", "?", "a", ".", "z">>
            -> <<"E", "1", "1", "C", "E", "5", "9", "9">>
      [] rawurl = <<"h", ":", "/", "/", "a", "/", "b", "%", "2", "E", "z">>
            -> <<"3", "6", "4", "B", "7", "0", "E", "7">>

\* The extension of the path component of the model's URLs.
KnownPathExt(rawurl) ==
    CASE rawurl = <<"h", ":", "/", "/", "a", "/", "a", ".", "2">> -> <<".", "2">>
      [] rawurl = <<"h", ":", "/", "/", "a", ".", "b", "/", "z">> -> <<>>
      [] rawurl = <<"h", ":", "/", "/", "a", "/", "b", "?", "a", ".", "z">> -> <<>>
      [] rawurl = <<"h", ":", "/", "/", "a", "/", "b", "%", "2", "E", "z">> -> <<".", "z">>

\* C7: the path ensure returns is the temporary directory joined with the
\* upper-case hexadecimal CRC32 of the raw URL followed by the explicit extension
\* when one is given, else by the extension of the URL's path; every call with
\* the same URL and extension returns the same path, whatever its force flag, the
\* cache contents and the calls before it.
C7_CachePathIsFunctionOfUrlAndExt ==
    /\ \A r \in returned :
          /\ r[3] = TempPath \o <<"/">> \o crc32s(r[1])
                       \o (IF r[2] # <<>> THEN r[2] ELSE Ext(Parse(r[1]).path))
          /\ r[3] = TempPath \o <<"/">> \o KnownSum(r[1])
                       \o (IF r[2] # <<>> THEN r[2] ELSE KnownPathExt(r[1]))
    /\ \A r1, r2 \in returned : (r1[1] = r2[1] /\ r1[2] = r2[2]) => r1[3] = r2[3]
    /\ \A p \in Pipelines :
          pc[p] = "returned" => <<call[p].rawurl, call[p].ext, ret[p]>> \in returned

\* C7's case: two calls with the same URL and extension, one forced and one
\* not, the first on an empty cache and the second on a filled one, returned the
\* same path; the URL is the one whose checksum starts with a zero digit, and
\* an explicit extension was given.
C7_Witness ==
    \E p \in Pipelines :
        /\ pc[p] = "returned" /\ prev[p].valid
        /\ prev[p].rawurl = call[p].rawurl /\ prev[p].ext = call[p].ext
        /\ prev[p].force # call[p].force
        /\ ~prev[p].existed
        /\ ret[p] = prev[p].ret
        /\ call[p].rawurl = <<"h", ":", "/", "/", "a", "/", "a", ".", "2">>
        /\ call[p].ext = <<".", "E">>
        /\ ret[p] = <<"t", "/", "C", "7", "6", "9", "E", "1", "F", ".", "E">>

\* C12: in one pipeline the rename comes after the status was found to be 200,
\* the whole body was copied and the destination was closed, in that order; and
\* when ensure has returned after a fetch, the file at the final path is exactly
\* the response body and there is no file at the ".tmp" path.
C12_RenameFollowsStatusCopyClose ==
    \A p \in Pipelines :
        /\ pc[p] \in {"copy", "close", "rename"} => resp[p].status = StatusOK
        /\ pc[p] \in {"close", "rename"} =>
               /\ resp[p].read = Len(resp[p].body)
               /\ ContentAt(dir, data, tempDestination(call[p].dest)) = resp[p].body
        /\ pc[p] = "rename" => (fd[p] = NoInode /\ "destination" \notin open[p])
        /\ pc[p] \in {"create", "get", "status", "copy", "close", "rename"} =>
               /\ dir[call[p].dest] = snap[p].dir[call[p].dest]
               /\ ContentAt(dir, data, call[p].dest)
                      = ContentAt(snap[p].dir, snap[p].data, call[p].dest)
        /\ (pc[p] = "returned" /\ requests[p] > 0) =>
               /\ resp[p].status = StatusOK
               /\ resp[p].read = Len(resp[p].body)
               /\ dir[call[p].dest] # NoInode
               /\ data[dir[call[p].dest]] = resp[p].body
               /\ dir[tempDestination(call[p].dest)] = NoInode

\* C12's case: ensure returned after fetching a body of two different bytes into
\* an empty cache.
C12_Witness ==
    \E p \in Pipelines :
        /\ pc[p] = "returned" /\ requests[p] = 1
        /\ snap[p].dir[call[p].dest] = NoInode
        /\ Len(resp[p].body) = 2 /\ resp[p].body[1] # resp[p].body[2]
        /\ data[dir[call[p].dest]] = resp[p].body

\* The contents a complete file of the race specification can have: a body the
\* server answers with, or the file an earlier run left in the cache.
CompleteBodies == RaceBodies \cup {CachedBody}

\* C13, as stated: with two pipeline instances running ensure for the same URL
\* and extension, a file at the final cache path always holds a complete response
\* body.
C13_FinalPathNeverPartial ==
    \A f \in RacePaths :
        dir[f] # NoInode => data[dir[f]] \in CompleteBodies

\* C14, as stated: with two pipeline instances running ensure for the same URL
\* and extension, every fetch answered with 200 and no filesystem failure of the
\* system's own, no call ends in a fatal error.
C14_BothRacingCallsReturn ==
    \A p \in Pipelines : pc[p] # "fatal"

\* An ensure call that began with a file at its ".tmp" path, left there by a
\* fetch that was interrupted.
Leftover(p) ==
    /\ call[p].dest # <<>>
    /\ snap[p].dir[tempDestination(call[p].dest)] # NoInode

\* The leftover holds bytes of the interrupted fetch.
LeftoverPartial(p) ==
    /\ Leftover(p)
    /\ ContentAt(snap[p].dir, snap[p].data, tempDestination(call[p].dest)) # <<>>

\* C15, as stated: an ensure call that finds a ".tmp" file left by an interrupted
\* fetch for the same URL and extension fetches again, and when it returns the
\* file at the final path is exactly the new response body.
C15_LeftoverAlwaysRefetched ==
    \A p \in Pipelines :
        (LeftoverPartial(p) /\ pc[p] = "returned") =>
            /\ requests[p] = 1
            /\ ContentAt(dir, data, call[p].dest) = resp[p].body

\* C15, amended: the ".tmp" file is never what makes a cache hit and none of
\* its bytes is promoted.  A call that finds one fetches again whenever force is
\* true or no file is at the final path, and when it returns after the fetch the
\* file at the final path is exactly the new response body and the ".tmp" name
\* is gone; with force false and a file at the final path the call is a cache hit
\* on that file, fetches nothing and leaves the final file and the ".tmp" file
\* as they were.
C15_LeftoverNeverHitNorPromoted ==
    \A p \in Pipelines :
        Leftover(p) =>
            /\ (pc[p] = "returned" /\ (call[p].force \/ snap[p].dir[call[p].dest] = NoInode))
                   => /\ requests[p] = 1
                      /\ dir[call[p].dest] # NoInode
                      /\ data[dir[call[p].dest]] = resp[p].body
                      /\ dir[tempDestination(call[p].dest)] = NoInode
            /\ (pc[p] = "returned" /\ ~call[p].force /\ snap[p].dir[call[p].dest] # NoInode)
                   => /\ requests[p] = 0
                      /\ dir = snap[p].dir
                      /\ data = snap[p].data
            /\ pc[p] \in {"get", "status"}
                   => ContentAt(dir, data, tempDestination(call[p].dest)) = <<>>
            /\ pc[p] \in {"copy", "close"}
                   => ContentAt(dir, data, tempDestination(call[p].dest))
                          = SubSeq(resp[p].body, 1, resp[p].read)

\* C15's case: the ".tmp" file held two bytes of an interrupted fetch, no file
\* was at the final path, and the call returned after fetching a body of one
\* byte, which is what the final path holds.
C15_Witness ==
    \E p \in Pipelines :
        /\ Leftover(p) /\ pc[p] = "returned" /\ ~call[p].force
        /\ snap[p].dir[call[p].dest] = NoInode
        /\ Len(ContentAt(snap[p].dir, snap[p].data, tempDestination(call[p].dest))) = 2
        /\ Len(resp[p].body) = 1
        /\ data[dir[call[p].dest]] = resp[p].body

\* A step that changes the file at a final path: the name is bound to another
\* file, or appears or disappears, or the content changes.
ChangesFinal(f) ==
    \/ dir'[f] # dir[f]
    \/ ContentAt(dir', data', f) # ContentAt(dir, data, f)

\* The rename step of a fetch of f that succeeds.
SuccessfulRename(f) ==
    \E p \in Pipelines :
        /\ pc[p] = "rename" /\ pc'[p] = "returned"
        /\ call[p].dest = f
        /\ resp[p].status = StatusOK

\* C16: every step that changes the file at a final cache path is the rename
\* step of a fetch that succeeds; and when ensure(url, ext, true) found a file
\* cached and failed at a step before the rename, that file is still at the final
\* path with the content it had.
C16_OnlyRenameChangesEntry ==
    /\ [][\A f \in FinalPaths : ChangesFinal(f) => SuccessfulRename(f)]_vars
    /\ [](\A p \in Pipelines :
             (FailedBeforeRename(p) /\ call[p].force /\ snap[p].dir[call[p].dest] # NoInode)
                 => /\ dir[call[p].dest] = snap[p].dir[call[p].dest]
                    /\ data[dir[call[p].dest]]
                           = snap[p].data[snap[p].dir[call[p].dest]])

\* C16's case: a forced call found the cached file, fetched a different body
\* completely into the ".tmp" file and failed closing it; the cached file is
\* unchanged.
C16_Witness ==
    \E p \in Pipelines :
        /\ pc[p] = "fatal" /\ failedAt[p] = "close" /\ call[p].force
        /\ snap[p].dir[call[p].dest] # NoInode
        /\ resp[p].body # CachedBody /\ resp[p].read = Len(resp[p].body)
        /\ ContentAt(dir, data, tempDestination(call[p].dest)) = resp[p].body
        /\ ContentAt(dir, data, call[p].dest) = CachedBody

\* C18, as stated: when download has ended, by returning or by a fatal exit, and
\* when extractZip has returned, with or without an error, every resource the
\* operation acquired has been released by it.
C18_EveryExitReleasesResources ==
    /\ \A p \in Pipelines : Ended(p) => open[p] = {}
    /\ zipPc = "returned" => zipOpen = {}

(***************************************************************************)
(* Claims about the content fetcher.                                       *)
(***************************************************************************)
\* The request URLs that contain the redirector host string, and those that
\* contain the vendor host string, read off the URLs themselves.
RedirectorURLs == {CodeplexURL, BothURL}
VendorURLs == {AtiURL, CreatiURL, BothURL}

LicenceCookie == [Name |-> "oraclelicense", Value |-> "accept-securebackup-cookie"]

\* C11: every request CustomGet dispatches carries the custom User-Agent exactly
\* when its URL contains the redirector host string and the Referer exactly when
\* it contains the vendor host string, each whatever the other rule did; the
\* licence cookie is in the jar for both base URLs whatever the request URL; two
\* requests for one URL carry the same headers and jar whatever their timeout;
\* and a call whose request was built dispatched it with the rules applied.
C11_QuirkRulesApplyByUrlAlone ==
    /\ \A i \in 1..Len(dispatched) :
          LET r == dispatched[i]
          IN  /\ (r.header["User-Agent"] = ChocolateyUserAgent) <=> (r.url \in RedirectorURLs)
              /\ (r.header["User-Agent"] = "") <=> (r.url \notin RedirectorURLs)
              /\ (r.header["Referer"] = AmdReferer) <=> (r.url \in VendorURLs)
              /\ (r.header["Referer"] = "") <=> (r.url \notin VendorURLs)
              /\ LicenceCookie \in r.jar["http://download.oracle.com"]
              /\ LicenceCookie \in r.jar["https://edelivery.oracle.com"]
    /\ \A i, j \in 1..Len(dispatched) :
          dispatched[i].url = dispatched[j].url
              => /\ dispatched[i].header = dispatched[j].header
                 /\ dispatched[i].jar = dispatched[j].jar
    /\ (getResult # "none" /\ getArgs.urlStr # BadURL)
          => /\ Len(dispatched) > 0
             /\ dispatched[Len(dispatched)].url = getArgs.urlStr
    /\ getResult = "response" => Len(dispatched) > 0

\* C11 happens: the URL with both host strings was requested twice, once with
\* and once without a timeout, and both requests carry both headers.
C11_Witness ==
    /\ Len(dispatched) = 2
    /\ dispatched[1].url = BothURL
    /\ dispatched[2].url = BothURL
    /\ dispatched[1].timeout # dispatched[2].timeout
    /\ dispatched[2].header["User-Agent"] = ChocolateyUserAgent
    /\ dispatched[2].header["Referer"] = AmdReferer

====
